---------------------------- MODULE Spec2Model ----------------------------
(***************************************************************************)
(* A model of counters/counters.py: the classes CountupTimer and           *)
(* CountdownTimer.  One timer object is driven by an arbitrary sequence of *)
(* start / pause / resume / reset calls while the time source (time.time)  *)
(* advances.  Instants and spans are integers (clock ticks); the Python    *)
(* value None is the empty tuple and a present instant v is <<v>>.         *)
(***************************************************************************)
EXTENDS Integers, Sequences, FiniteSets, TLC

(* ------------------------------ bounds -------------------------------- *)

\* time.time() never exceeds MaxClock in the model
MaxClock == 6
\* the time source reads 0..MaxEpoch when the timer is constructed
MaxEpoch == 1
\* the largest single advance of the time source between two calls
MaxStep == 2
\* durations passed to __init__ / reset range over -NegDuration..MaxDuration
MaxDuration == 3
NegDuration == 1
\* how often the wall clock may be set back (SpecWallClock only)
MaxSetBacks == 1

Durations == (0 - NegDuration)..MaxDuration

Classes == {"CountupTimer", "CountdownTimer"}

(* ------------------------------ values -------------------------------- *)

None == <<>>

Some(v) == <<v>>

\* Python truthiness of an Optional[number]: None and 0 are falsy
Truthy(x) == x # None /\ x[1] # 0

Max(a, b) == IF a >= b THEN a ELSE b

(* ------------------------------ state --------------------------------- *)

VARIABLES
    cls,        \* the class of the timer object
    self,       \* the object's fields
    now,        \* the value time.time() returns
    setbacks,   \* how often the time source has been set back
    lastCall,   \* the most recent method call: [op, args]
    before,     \* the object's fields when that call was made
    raised,     \* TRUE iff the most recent method call raised TypeError
    twin,       \* the fields of a timer of the other class, constructed with
                \* the same duration and given the same calls at the same instants
    ran,        \* the clock time spent running since construction or reset
    probe       \* observer of one pause / wait / resume cycle: [phase, val]

vars == <<cls, self, now, setbacks, lastCall, before, raised, twin, ran, probe>>

Call(op, args) == [op |-> op, args |-> args]

Idle == [phase |-> "idle", val |-> 0]

(* ------------------------ CountupTimer methods ------------------------ *)

\* a constructor that leaves the new timer unpaused
init_unpaused(duration) ==
    [_time_started |-> None,
     _time_paused  |-> None,
     _elapsed      |-> 0,
     _paused       |-> FALSE,
     _duration     |-> duration]

\* __init__(self, duration): the fields of a newly constructed timer
init(duration) ==
    [_time_started |-> None,
     _time_paused  |-> None,
     _elapsed      |-> 0,
     _paused       |-> TRUE,
     _duration     |-> duration]

\* a reset that forgets the pause instant
reset_keeps_time_paused(s, duration) ==
    [init(duration) EXCEPT !._time_paused = s._time_paused]

\* reset(self, duration): self.__init__(duration)
reset(s, duration) == init(duration)

\* start(self) at instant t
start(s, t) ==
    IF Truthy(s._time_started)
    THEN s
    ELSE [s EXCEPT !._time_started = Some(t), !._paused = FALSE]

\* a pause that does not check whether the timer is already paused
pause_unguarded(s, t) ==
    IF s._time_started = None
    THEN s
    ELSE [s EXCEPT !._time_paused = Some(t), !._paused = TRUE]

\* pause(self) at instant t
pause(s, t) ==
    IF s._paused \/ s._time_started = None
    THEN s
    ELSE [s EXCEPT !._time_paused = Some(t), !._paused = TRUE]

\* a resume guard that does not check whether the timer was ever started
resume_acts_unstarted(s) == s._paused

\* resume(self) passes its guard and reaches the subtraction of line 55
resume_acts(s) == ~(~s._paused \/ s._time_started = None)

\* resume(self) raises: time.time() - None
resume_raises(s) == resume_acts(s) /\ s._time_paused = None

\* a resume that restarts the clock instead of shifting the start instant
resume_restarts(s, t) ==
    IF ~resume_acts(s) \/ resume_raises(s)
    THEN s
    ELSE [s EXCEPT !._time_started = Some(t), !._paused = FALSE]

\* a resume that shifts the start instant by the current instant instead of
\* by the length of the pause
resume_shifts_by_now(s, t) ==
    IF ~resume_acts(s) \/ resume_raises(s)
    THEN s
    ELSE LET pause_duration == t
         IN  [s EXCEPT !._time_started = Some(s._time_started[1] + pause_duration),
                       !._paused = FALSE]

\* a resume that also forgets the pause instant
resume_clears_time_paused(s, t) ==
    IF ~resume_acts(s) \/ resume_raises(s)
    THEN s
    ELSE LET pause_duration == t - s._time_paused[1]
         IN  [s EXCEPT !._time_started = Some(s._time_started[1] + pause_duration),
                       !._time_paused = None,
                       !._paused = FALSE]

\* resume(self) at instant t
resume(s, t) ==
    IF ~resume_acts(s) \/ resume_raises(s)
    THEN s
    ELSE LET pause_duration == t - s._time_paused[1]
         IN  [s EXCEPT !._time_started = Some(s._time_started[1] + pause_duration),
                       !._paused = FALSE]

\* _get(self) raises: None - self._time_started
get_raises(s) == Truthy(s._time_started) /\ s._paused /\ s._time_paused = None

\* a _get whose paused branch subtracts the wrong way round
get_swapped(s, t) ==
    IF ~Truthy(s._time_started) THEN 0
    ELSE IF s._paused
         THEN (IF s._time_paused = None THEN 0
               ELSE s._time_started[1] - s._time_paused[1])
         ELSE t - s._time_started[1]

\* _get(self) at instant t
get(s, t) ==
    IF ~Truthy(s._time_started) THEN 0
    ELSE IF s._paused
         THEN (IF s._time_paused = None THEN 0
               ELSE s._time_paused[1] - s._time_started[1])
         ELSE t - s._time_started[1]

\* property paused
paused(s) == s._paused

\* property running
running(s) == ~s._paused

\* property elapsed: got or 0
elapsed(s, t) == LET got == get(s, t) IN IF got # 0 THEN got ELSE 0

\* property duration
duration(s) == s._duration

\* an expiry test that is strict
expired_strict(s, t) == elapsed(s, t) > s._duration

\* property expired
expired(s, t) == elapsed(s, t) >= s._duration

\* a count-up remaining whose comparison with the duration is strict
CountupTimer_remaining_strict(s, t) ==
    LET got == get(s, t)
        time_left == s._duration - got
    IN  IF time_left < duration(s) THEN time_left ELSE 0

\* a count-up remaining that is floored at zero like the countdown's
CountupTimer_remaining_floored(s, t) ==
    LET got == get(s, t)
        time_left == s._duration - got
    IN  Max(time_left, 0)

\* CountupTimer.remaining
CountupTimer_remaining(s, t) ==
    LET got == get(s, t)
        time_left == s._duration - got
    IN  IF time_left <= duration(s) THEN time_left ELSE 0

\* a countdown without its override: the inherited CountupTimer.remaining
CountdownTimer_remaining_inherited(s, t) == CountupTimer_remaining(s, t)

\* a countdown that is not floored at zero
CountdownTimer_remaining_unclamped(s, t) ==
    LET got == get(s, t)
        time_left == s._duration - got
    IN  time_left

\* CountdownTimer.remaining
CountdownTimer_remaining(s, t) ==
    LET got == get(s, t)
        time_left == s._duration - got
    IN  Max(time_left, 0)

\* remaining, dispatched on the object's class
remaining(c, s, t) ==
    IF c = "CountdownTimer" THEN CountdownTimer_remaining(s, t)
    ELSE CountupTimer_remaining(s, t)

(* ------------------------------ actions ------------------------------- *)

TypeOK ==
    /\ cls \in Classes
    /\ now \in 0..MaxClock
    /\ raised \in BOOLEAN
    /\ self._paused \in BOOLEAN
    /\ self._duration \in Durations

Init ==
    /\ cls \in Classes
    /\ now \in 0..MaxEpoch
    /\ setbacks = 0
    /\ \E d \in Durations :
          /\ self = init(d)
          /\ before = init(d)
          /\ twin = init(d)
          /\ lastCall = Call("__init__", <<d>>)
    /\ raised = FALSE
    /\ ran = 0
    /\ probe = Idle

\* the time source advances by k
Tick ==
    \E k \in 1..MaxStep :
       /\ now + k <= MaxClock
       /\ now' = now + k
       /\ ran' = IF running(self) THEN ran + k ELSE ran
       /\ probe' = IF probe.phase = "paused" THEN probe ELSE Idle
       /\ UNCHANGED <<cls, self, setbacks, lastCall, before, raised, twin>>

Reset ==
    \E d \in Durations :
       /\ self' = reset(self, d)
       /\ twin' = reset(twin, d)
       /\ ran' = 0
       /\ lastCall' = Call("reset", <<d>>)
       /\ raised' = FALSE
       /\ probe' = Idle
       /\ before' = self
       /\ UNCHANGED <<cls, now, setbacks>>

Start ==
    /\ self' = start(self, now)
    /\ twin' = start(twin, now)
    /\ ran' = ran
    /\ lastCall' = Call("start", <<>>)
    /\ raised' = FALSE
    /\ probe' = Idle
    /\ before' = self
    /\ UNCHANGED <<cls, now, setbacks>>

Pause ==
    /\ self' = pause(self, now)
    /\ twin' = pause(twin, now)
    /\ ran' = ran
    /\ lastCall' = Call("pause", <<>>)
    /\ raised' = FALSE
    /\ probe' = IF self._time_started # None /\ ~self._paused
                THEN [phase |-> "paused", val |-> elapsed(self, now)]
                ELSE Idle
    /\ before' = self
    /\ UNCHANGED <<cls, now, setbacks>>

Resume ==
    /\ self' = resume(self, now)
    /\ twin' = resume(twin, now)
    /\ ran' = ran
    /\ lastCall' = Call("resume", <<>>)
    /\ raised' = resume_raises(self)
    /\ probe' = IF probe.phase = "paused"
                THEN [probe EXCEPT !.phase = "resumed"]
                ELSE Idle
    /\ before' = self
    /\ UNCHANGED <<cls, now, setbacks>>

Next == Tick \/ Reset \/ Start \/ Pause \/ Resume

\* the timer under a non-decreasing time source
Spec == Init /\ [][Next]_vars

\* time.time() is the wall clock: it can be set back by k
SetBack ==
    \E k \in 1..MaxStep :
       /\ setbacks < MaxSetBacks
       /\ now - k >= 0
       /\ now' = now - k
       /\ setbacks' = setbacks + 1
       /\ ran' = IF running(self) THEN ran - k ELSE ran
       /\ probe' = IF probe.phase = "paused" THEN probe ELSE Idle
       /\ UNCHANGED <<cls, self, lastCall, before, raised, twin>>

NextWallClock == Next \/ SetBack

\* the timer under a time source that may also step backwards
SpecWallClock == Init /\ [][NextWallClock]_vars

(* ------------------------------ claims -------------------------------- *)

\* the three states of the timer, read off its fields
State(s) ==
    IF s._time_started = None THEN "Unstarted"
    ELSE IF s._paused THEN "Paused" ELSE "Running"

\* C1: pause intervals do not count toward elapsed.  After pause(), any
\* advance of the clock and resume() on a started, running timer, the
\* elapsed value read right after resume() equals the one read right
\* before pause().
C1_PauseIntervalNotCounted ==
    probe.phase = "resumed" => elapsed(self, now) = probe.val

\* C2: start() on a timer whose startInstant is present (whatever its
\* value, running or paused) changes no field.
C2_StartOnStartedIsNoOp ==
    (lastCall.op = "start" /\ before._time_started # None) => self = before

\* C3: reset(d), called in any state, leaves exactly the fields of a newly
\* constructed timer of duration d: no start instant, no pause instant,
\* paused, duration d, and an elapsed reading of 0.
C3_ResetIsFreshConstruct ==
    lastCall.op = "reset" =>
        /\ self._time_started = None
        /\ self._time_paused = None
        /\ self._paused = TRUE
        /\ self._elapsed = 0
        /\ self._duration = lastCall.args[1]
        /\ self = init(lastCall.args[1])
        /\ elapsed(self, now) = 0

\* C3 witness: reset(2) was called on a paused timer that had run
C3_Witness ==
    /\ lastCall = Call("reset", <<2>>)
    /\ State(before) = "Paused"
    /\ before._time_paused # None
    /\ before._duration # 2
    /\ elapsed(before, now) > 0

\* C4: the remaining time of a CountdownTimer is never negative, and reads
\* exactly 0 once elapsed exceeds the duration.
C4_CountdownRemainingNonNegative ==
    cls = "CountdownTimer" =>
        /\ remaining(cls, self, now) >= 0
        /\ (elapsed(self, now) > duration(self) => remaining(cls, self, now) = 0)

\* C4 witness: a countdown of positive duration that has run past it
C4_Witness ==
    /\ cls = "CountdownTimer"
    /\ duration(self) > 0
    /\ elapsed(self, now) > duration(self)
    /\ remaining(cls, self, now) = 0

\* C5: the only state changes are Unstarted --start--> Running,
\* Running --pause--> Paused, Paused --resume--> Running and
\* any --reset--> Unstarted; every other call leaves the state where it was.
C5_ThreeStateMachine ==
    LET a == State(before)
        b == State(self)
        op == lastCall.op
    IN  /\ op = "reset" => b = "Unstarted"
        /\ op = "start" => b = (IF a = "Unstarted" THEN "Running" ELSE a)
        /\ op = "pause" => b = (IF a = "Running" THEN "Paused" ELSE a)
        /\ op = "resume" => b = (IF a = "Paused" THEN "Running" ELSE a)
        /\ op = "__init__" => b = "Unstarted"

\* C6: pause() on a timer that is paused or was never started, and resume()
\* on a timer that is running or was never started, change no field.
C6_InapplicablePauseResumeIsNoOp ==
    /\ (lastCall.op = "pause" /\ (before._paused \/ before._time_started = None))
          => self = before
    /\ (lastCall.op = "resume" /\ (~before._paused \/ before._time_started = None))
          => self = before

\* C6 witness: pause() was called on a timer paused at an earlier instant
C6_Witness ==
    /\ lastCall.op = "pause"
    /\ before._paused
    /\ before._time_started # None
    /\ before._time_paused # None
    /\ before._time_paused[1] < now
    /\ self._time_paused = before._time_paused

\* C7: with a non-decreasing time source the elapsed reading is never negative.
C7_ElapsedNonNegative ==
    elapsed(self, now) >= 0

\* C7 witness: a paused timer, resumed and paused before, shows a positive reading
C7_Witness ==
    /\ lastCall.op = "pause"
    /\ self._paused
    /\ before._time_paused # None
    /\ self._time_started # None
    /\ self._time_started[1] > 0
    /\ elapsed(self, now) > 0

\* C8: no call and no query fails: resume() and the paused branch of _get
\* never subtract with an absent instant.
C8_NoOperationFails ==
    /\ raised = FALSE
    /\ ~resume_raises(self)
    /\ ~get_raises(self)

\* C8 witness: resume() was called on a timer of negative duration whose
\* paused flag was set while it had no pause instant
C8_Witness ==
    /\ lastCall.op = "resume"
    /\ before._paused
    /\ before._time_paused = None
    /\ before._duration < 0

\* C9: for every duration d >= 0 a timer just constructed or reset to d reads
\* elapsed 0, paused, not running and expired iff 0 >= d; a timer of
\* duration 0 is expired right after start() as well.
C9_FreshTimerReadings ==
    /\ (lastCall.op \in {"__init__", "reset"} /\ lastCall.args[1] >= 0) =>
          /\ elapsed(self, now) = 0
          /\ paused(self) = TRUE
          /\ running(self) = FALSE
          /\ expired(self, now) = (0 >= lastCall.args[1])
          /\ duration(self) = lastCall.args[1]
    /\ (lastCall.op = "start" /\ duration(self) = 0) => expired(self, now)

\* C9 witness: a timer of duration 0 was started from the unstarted state
\* and is read at the instant of the call
C9_Witness ==
    /\ lastCall.op = "start"
    /\ before._time_started = None
    /\ duration(self) = 0
    /\ self._time_started = Some(now)
    /\ expired(self, now)

\* C10: the remaining time of a CountupTimer is duration - elapsed with no
\* floor (negative once elapsed exceeds the duration); it is replaced by 0
\* only where duration - elapsed exceeds the duration, so it never exceeds a
\* non-negative duration.
C10_CountupRemaining ==
    cls = "CountupTimer" =>
        LET r == remaining(cls, self, now)
            e == elapsed(self, now)
            d == duration(self)
        IN  /\ e >= 0 => r = d - e
            /\ (e >= 0 /\ e > d) => r < 0
            /\ r # d - e => (r = 0 /\ d - e > d)
            /\ d >= 0 => r <= d

\* C10 witness: a count-up timer of positive duration that has run past it
\* after the time source had been set back
C10_Witness ==
    /\ cls = "CountupTimer"
    /\ setbacks > 0
    /\ duration(self) > 0
    /\ elapsed(self, now) > duration(self)
    /\ remaining(cls, self, now) < 0

\* C11 as stated: pauseInstant is present only in the Paused state; resume()
\* clears it, so after resume() a timer that is Running or Unstarted holds
\* no pause instant.
C11_PauseInstantOnlyWhilePaused ==
    lastCall.op = "resume" =>
        (self._time_paused # None => State(self) = "Paused")

\* C11 as amended: pauseInstant is absent in the Unstarted state and present
\* in the Paused state; resume() leaves it as it was, so a Running timer that
\* has been paused before still holds the instant of its last pause.
C11_PauseInstantKeptByResume ==
    /\ State(self) = "Unstarted" => self._time_paused = None
    /\ State(self) = "Paused" => self._time_paused # None
    /\ lastCall.op = "resume" => self._time_paused = before._time_paused

\* C11 witness: resume() took a Paused timer to Running and the pause
\* instant is still there
C11_Witness ==
    /\ lastCall.op = "resume"
    /\ State(before) = "Paused"
    /\ State(self) = "Running"
    /\ self._time_paused # None
    /\ self._time_started[1] > before._time_started[1]

\* C12: the elapsed query reads 0 if the timer was never started,
\* pauseInstant - startInstant if it is paused and now - startInstant if it
\* is running, the start instant 0 included.
C12_ElapsedFormula ==
    elapsed(self, now) =
        (IF self._time_started = None THEN 0
         ELSE IF self._paused THEN self._time_paused[1] - self._time_started[1]
         ELSE now - self._time_started[1])

\* C13: between two resets, a start instant once set changes only in a
\* resume() taken from the Paused state, which raises it by exactly
\* now - pauseInstant >= 0; start(), pause(), a resume() that does not apply
\* and the passing of time leave it unchanged, and it never decreases.
C13_StartInstantOnlyShiftedByResume ==
    [][ (self._time_started # None /\ ~(now' = now /\ lastCall'.op = "reset")) =>
          IF now' = now /\ lastCall'.op = "resume" /\ State(self) = "Paused"
          THEN /\ now - self._time_paused[1] >= 0
               /\ self'._time_started =
                     Some(self._time_started[1] + (now - self._time_paused[1]))
          ELSE self'._time_started = self._time_started ]_vars

\* C14: a timer with no start instant is paused (paused reads true, running
\* false); running is always the negation of paused, so a running timer has
\* been started.
C14_UnstartedIsPaused ==
    /\ self._time_started = None => (paused(self) = TRUE /\ running(self) = FALSE)
    /\ running(self) = ~paused(self)
    /\ running(self) => self._time_started # None

\* C14 witness: reset() took a Running timer back to no start instant, paused
C14_Witness ==
    /\ lastCall.op = "reset"
    /\ State(before) = "Running"
    /\ running(before)
    /\ self._time_started = None
    /\ paused(self)

\* the CountupTimer and the CountdownTimer of the pair (self, twin)
UpTimer == IF cls = "CountupTimer" THEN self ELSE twin

DownTimer == IF cls = "CountdownTimer" THEN self ELSE twin

\* C15: a CountupTimer and a CountdownTimer constructed with the same
\* duration and given the same calls at the same instants hold the same
\* fields and give the same elapsed, paused, running and expired readings;
\* only remaining differs, and the countdown's is max(the count-up's, 0)
\* whenever elapsed >= 0.
C15_VariantsAgreeButForRemaining ==
    /\ UpTimer = DownTimer
    /\ elapsed(UpTimer, now) = elapsed(DownTimer, now)
    /\ paused(UpTimer) = paused(DownTimer)
    /\ running(UpTimer) = running(DownTimer)
    /\ expired(UpTimer, now) = expired(DownTimer, now)
    /\ duration(UpTimer) = duration(DownTimer)
    /\ elapsed(UpTimer, now) >= 0 =>
          remaining("CountdownTimer", DownTimer, now) =
              Max(remaining("CountupTimer", UpTimer, now), 0)

\* C15 witness: after a pause and a resume the pair has run past a positive
\* duration: the count-up timer reads a negative remaining, the countdown 0
C15_Witness ==
    /\ lastCall.op = "resume"
    /\ State(before) = "Paused"
    /\ duration(UpTimer) > 0
    /\ elapsed(UpTimer, now) > duration(UpTimer)
    /\ remaining("CountupTimer", UpTimer, now) < 0
    /\ remaining("CountdownTimer", DownTimer, now) = 0

\* C16: a timer constructed or reset with a negative duration is expired in
\* every state (unstarted, running, paused) and its remaining is <= 0:
\* duration - elapsed, a negative value, for a CountupTimer and 0 for a
\* CountdownTimer.
C16_NegativeDuration ==
    duration(self) < 0 =>
        /\ expired(self, now)
        /\ remaining(cls, self, now) <= 0
        /\ cls = "CountupTimer" =>
              /\ remaining(cls, self, now) = duration(self) - elapsed(self, now)
              /\ remaining(cls, self, now) < 0
        /\ cls = "CountdownTimer" => remaining(cls, self, now) = 0

\* C16 witness: a count-up timer of negative duration that was never started
\* reads its duration as remaining
C16_Witness ==
    /\ cls = "CountupTimer"
    /\ duration(self) < 0
    /\ State(self) = "Unstarted"
    /\ lastCall.op = "reset"
    /\ State(before) = "Running"
    /\ remaining(cls, self, now) = duration(self)

\* C17: elapsed always equals the clock time the timer has spent running
\* since it was constructed or last reset, whatever the clock read at the
\* start and however many pause / resume cycles there were.
C17_ElapsedIsTimeSpentRunning ==
    elapsed(self, now) = ran

\* C18: with a non-decreasing clock expiry latches: no start(), pause(),
\* resume() or advance of the clock makes an expired timer unexpired, only
\* reset() can; and elapsed never decreases between two resets.
C18_ExpiryLatches ==
    [][ ~(now' = now /\ lastCall'.op = "reset") =>
          /\ expired(self, now) => expired(self', now')
          /\ elapsed(self', now') >= elapsed(self, now) ]_vars

\* C18 witness: a timer of positive duration, paused and resumed after it
\* had expired, is still expired
C18_Witness ==
    /\ lastCall.op = "resume"
    /\ State(before) = "Paused"
    /\ duration(self) > 0
    /\ expired(before, now)
    /\ before._time_paused[1] < now
    /\ State(self) = "Running"
    /\ expired(self, now)

\* C19: with a non-decreasing clock the recorded instants stay ordered: a
\* started timer has startInstant <= now, and a timer paused after having
\* been started has a pause instant with startInstant <= pauseInstant <= now.
C19_InstantsOrdered ==
    /\ self._time_started # None => self._time_started[1] <= now
    /\ (self._time_started # None /\ self._paused) =>
          /\ self._time_paused # None
          /\ self._time_started[1] <= self._time_paused[1]
          /\ self._time_paused[1] <= now

\* C19 witness: a timer paused for the second time, some time ago, after its
\* start instant had been shifted by a resume
C19_Witness ==
    /\ lastCall.op = "pause"
    /\ State(before) = "Running"
    /\ before._time_paused # None
    /\ State(self) = "Paused"
    /\ 0 < self._time_started[1]
    /\ self._time_started[1] < self._time_paused[1]
    /\ self._time_paused[1] < now

=============================================================================
